---------------------------- MODULE Spec2Model ----------------------------
(***************************************************************************)
(* A model of src/app.py: the Over 2.5 betting model (Sportmonks).         *)
(*                                                                         *)
(* Numbers.  Python floats are modelled as exact rationals [num, den] with *)
(* den > 0, except for math.exp, which is modelled in fixed point with     *)
(* SCALE units per 1.0 (a truncated Taylor series).  Strings that the code *)
(* inspects character by character (team names, sort keys) are sequences   *)
(* of characters.                                                          *)
(***************************************************************************)
EXTENDS Integers, Sequences, FiniteSets, TLC

VARIABLES
    call,           \* the last direct call of a pure helper: function, arguments, result
    pc,             \* position of the script inside the "if calc:" block
    home_team,      \* st.text_input("Home Team")
    away_team,      \* st.text_input("Away Team")
    american_odds,  \* st.number_input("Over 2.5 American Odds")
    fixtures,       \* result of fetch_fixtures_for_season
    name_to_id,     \* find_team_ids_from_fixtures(fixtures), as a sequence of <<name, id>>
    home_match,     \* best_fuzzy_match(home_team, options)
    away_match,     \* best_fuzzy_match(away_team, options)
    lam,            \* estimate_lambda_from_recent(...)[0]
    dbg,            \* estimate_lambda_from_recent(...)[1]
    model_p,        \* prob_over_25_from_lambda(lam)
    market_p,       \* american_to_implied_prob(int(american_odds))
    edge,           \* model_p - market_p
    ui,             \* the Streamlit elements the block has emitted, in order
    loop,           \* which paginated fetch is running
    page,           \* its page counter
    requested,      \* the pages it has requested so far, in order
    resp            \* the last server response it processed

vars == <<call, pc, home_team, away_team, american_odds, fixtures, name_to_id,
          home_match, away_match, lam, dbg, model_p, market_p, edge, ui,
          loop, page, requested, resp>>

calcVars == <<pc, home_team, away_team, american_odds, fixtures, name_to_id,
              home_match, away_match, lam, dbg, model_p, market_p, edge, ui>>

fetchVars == <<loop, page, requested, resp>>

\* Python's None
None == "None"

-----------------------------------------------------------------------------
(* Bounds of the model *)

\* fixed-point units per 1.0 for math.exp
SCALE == 10000
\* number of Taylor terms used for math.exp
ExpTerms == 14
\* american odds drawn for the direct calls: -MaxOdds .. MaxOdds
MaxOdds == 120
\* lambda drawn for the direct calls: k / LamDen, k in -MaxLamK .. MaxLamK
LamDen == 4
MaxLamK == 16
\* model probability drawn for the direct edge evaluation: k / ProbGrid
ProbGrid == 100
\* fixtures in one list
MaxFixtures == 2
\* the n of filter_team_recent_fixtures drawn for the direct calls: 0 .. MaxN
MaxN == 2
\* start instants of fixtures: years 2020 .. 2020 + MaxT
MaxT == 2

-----------------------------------------------------------------------------
(* Rationals *)

Rat(n, d) == [num |-> n, den |-> d]
RatLT(a, b) == a.num * b.den < b.num * a.den
RatLE(a, b) == a.num * b.den <= b.num * a.den
RatEq(a, b) == a.num * b.den = b.num * a.den
RatAdd(a, b) == Rat(a.num * b.den + b.num * a.den, a.den * b.den)
RatSub(a, b) == Rat(a.num * b.den - b.num * a.den, a.den * b.den)
RatDivInt(a, k) == Rat(a.num, a.den * k)
RatZero == Rat(0, 1)
RatOne == Rat(1, 1)
Abs(x) == IF x < 0 THEN -x ELSE x

-----------------------------------------------------------------------------
(* ODDS HELPERS *)

\* variant: the two formulas exchanged between the branches
american_to_implied_prob_swapped(american) ==
    IF american = 0 THEN RatZero
    ELSE IF american < 0 THEN Rat(100, (-american) + 100)
    ELSE Rat(american, american + 100)

american_to_implied_prob(american) ==
    IF american = 0 THEN RatZero
    ELSE IF american < 0 THEN Rat(-american, (-american) + 100)
    ELSE Rat(100, american + 100)

-----------------------------------------------------------------------------
(* POISSON HELPERS *)

\* sum_{k = i}^{ExpTerms} x^k / k!  in fixed point, term being x^i / i!
RECURSIVE ExpSeries(_, _, _)
ExpSeries(x, i, term) ==
    IF i > ExpTerms \/ term = 0 THEN 0
    ELSE term + ExpSeries(x, i + 1, (term * x.num) \div (x.den * (i + 1)))

\* math.exp(x) for a rational x, in fixed point
exp(x) ==
    IF x.num >= 0 THEN ExpSeries(x, 0, SCALE)
    ELSE (SCALE * SCALE) \div ExpSeries(Rat(-x.num, x.den), 0, SCALE)

RECURSIVE factorial(_)
factorial(k) == IF k <= 1 THEN 1 ELSE k * factorial(k - 1)

\* lam ** k for k in 0..2, as a rational
Pow(l, k) ==
    IF k = 0 THEN RatOne
    ELSE IF k = 1 THEN l
    ELSE Rat(l.num * l.num, l.den * l.den)

\* math.exp(-lam) * (lam ** k) / math.factorial(k), in fixed point
poisson_pmf(k, l) ==
    (exp(Rat(-l.num, l.den)) * Pow(l, k).num) \div (Pow(l, k).den * factorial(k))

Clamp01(x) ==
    LET lo == IF x < SCALE THEN x ELSE SCALE
    IN  IF lo > 0 THEN lo ELSE 0

\* variant: the k = 2 term left out of the sum
prob_over_25_from_lambda_no_p2(l) ==
    IF RatLE(l, RatZero) THEN Rat(0, SCALE)
    ELSE LET p0 == poisson_pmf(0, l)
             p1 == poisson_pmf(1, l)
         IN  Rat(Clamp01(SCALE - (p0 + p1)), SCALE)

prob_over_25_from_lambda(l) ==
    IF RatLE(l, RatZero) THEN Rat(0, SCALE)
    ELSE LET p0 == poisson_pmf(0, l)
             p1 == poisson_pmf(1, l)
             p2 == poisson_pmf(2, l)
         IN  Rat(Clamp01(SCALE - (p0 + p1 + p2)), SCALE)

-----------------------------------------------------------------------------
(* Strings.  A name is a sequence of one-character strings; the empty      *)
(* sequence stands for both "" and None, which the code tests alike.       *)

Lower(ch) == IF ch = "A" THEN "a" ELSE IF ch = "B" THEN "b" ELSE IF ch = "C" THEN "c" ELSE ch
IsAlnum(ch) == ch \in {"a", "b", "c", "z", "A", "B", "C"}
IsSpace(ch) == ch = " "

RECURSIVE LStrip(_)
LStrip(s) == IF s # <<>> /\ IsSpace(Head(s)) THEN LStrip(Tail(s)) ELSE s

RECURSIVE RStrip(_)
RStrip(s) ==
    IF s # <<>> /\ IsSpace(s[Len(s)]) THEN RStrip(SubSeq(s, 1, Len(s) - 1)) ELSE s

\* str.strip()
Strip(s) == LStrip(RStrip(s))

KeepChar(ch) == IsAlnum(ch) \/ IsSpace(ch)

normalize_name(s) ==
    LET kept == SelectSeq(Strip(s), KeepChar)
    IN  Strip([i \in 1..Len(kept) |-> Lower(kept[i])])

\* str.startswith
StartsWith(s, t) == Len(t) <= Len(s) /\ SubSeq(s, 1, Len(t)) = t

\* t in s
Contains(s, t) ==
    \E i \in 1..(Len(s) - Len(t) + 1) : SubSeq(s, i, i + Len(t) - 1) = t

\* set(s.split()): the words of s
RECURSIVE Tokens(_, _)
Tokens(s, cur) ==
    IF s = <<>> THEN (IF cur = <<>> THEN {} ELSE {cur})
    ELSE IF IsSpace(Head(s))
         THEN (IF cur = <<>> THEN {} ELSE {cur}) \cup Tokens(Tail(s), <<>>)
         ELSE Tokens(Tail(s), Append(cur, Head(s)))

IsExact(n, t) == n = t
IsPrefix(n, t) == StartsWith(n, t) \/ StartsWith(t, n)
IsInside(n, t) == Contains(n, t) \/ Contains(t, n)

StageTest(stage, n, t) ==
    IF stage = "exact" THEN IsExact(n, t)
    ELSE IF stage = "startswith" THEN IsPrefix(n, t)
    ELSE IsInside(n, t)

\* one "for opt, n in norm_opts" loop: the first option passing the stage's
\* test, or <<>> (None)
RECURSIVE FirstOpt(_, _, _)
FirstOpt(options, t, stage) ==
    IF options = <<>> THEN <<>>
    ELSE IF StageTest(stage, normalize_name(Head(options)), t) THEN Head(options)
    ELSE FirstOpt(Tail(options), t, stage)

Score(opt, t) == Cardinality(Tokens(t, <<>>) \cap Tokens(normalize_name(opt), <<>>))

\* the token-overlap loop: best so far and its score
RECURSIVE BestOverlap(_, _, _, _)
BestOverlap(options, t, best, best_score) ==
    IF options = <<>> THEN (IF best_score > 0 THEN best ELSE <<>>)
    ELSE IF Score(Head(options), t) > best_score
         THEN BestOverlap(Tail(options), t, Head(options), Score(Head(options), t))
         ELSE BestOverlap(Tail(options), t, best, best_score)

best_fuzzy_match(target, options) ==
    LET t == normalize_name(target)
    IN  IF t = <<>> THEN <<>>
        ELSE IF FirstOpt(options, t, "exact") # <<>> THEN FirstOpt(options, t, "exact")
        ELSE IF FirstOpt(options, t, "startswith") # <<>> THEN FirstOpt(options, t, "startswith")
        ELSE IF FirstOpt(options, t, "contains") # <<>> THEN FirstOpt(options, t, "contains")
        ELSE BestOverlap(options, t, <<>>, 0)

-----------------------------------------------------------------------------
(* SPORTMONKS DATA PARSING.  A fixture is                                   *)
(*   [participants: sequence of [id, name],  id 0 standing for a missing id *)
(*    starting_at: string of digits, <<>> when missing,                     *)
(*    starting_at_timestamp: integer, 0 when missing,                       *)
(*    scores: sequence of [description, goals]],                            *)
(* goals being <<g>> for an integer score.goals and <<>> otherwise.         *)

Participant(i, nm) == [id |-> i, name |-> nm]
ScoreEntry(d, g) == [description |-> d, goals |-> g]

\* "CURRENT" in desc or "FT" in desc or "FULL" in desc
IsPreferred(s) == s.description \in {"CURRENT", "FT", "FULLTIME"}

HasGoals(s) == s.goals # <<>>

extract_total_goals_from_scores(fixture) ==
    LET scores == fixture.scores
        preferred == SelectSeq(scores, IsPreferred)
        use == IF preferred # <<>> THEN preferred ELSE scores
        withGoals == SelectSeq(use, HasGoals)
        goals == [i \in 1..Len(withGoals) |-> withGoals[i].goals[1]]
    IN  IF scores = <<>> THEN <<>>
        ELSE IF goals # <<>>
             THEN (IF Len(goals) >= 2
                   THEN <<goals[Len(goals)] + goals[Len(goals) - 1]>>
                   ELSE <<goals[1]>>)
             ELSE <<>>

\* the key of the dict m, if present
HasKey(m, k) == \E i \in 1..Len(m) : m[i][1] = k
Lookup(m, k) == m[CHOOSE i \in 1..Len(m) : m[i][1] = k][2]
Keys(m) == [i \in 1..Len(m) |-> m[i][1]]

RECURSIVE AddParticipants(_, _)
AddParticipants(m, parts) ==
    IF parts = <<>> THEN m
    ELSE LET p == Head(parts)
         IN  IF p.id # 0 /\ p.name # <<>> /\ ~HasKey(m, p.name)
             THEN AddParticipants(Append(m, <<p.name, p.id>>), Tail(parts))
             ELSE AddParticipants(m, Tail(parts))

RECURSIVE TeamIdsFrom(_, _)
TeamIdsFrom(m, fxs) ==
    IF fxs = <<>> THEN m
    ELSE TeamIdsFrom(AddParticipants(m, Head(fxs).participants), Tail(fxs))

find_team_ids_from_fixtures(fxs) == TeamIdsFrom(<<>>, fxs)

\* str(n) for n >= 0, as its decimal digits
RECURSIVE Digits(_)
Digits(n) == IF n < 10 THEN <<n>> ELSE Append(Digits(n \div 10), n % 10)

\* str(fx.get("starting_at") or fx.get("starting_at_timestamp") or "")
dt_key(fx) ==
    IF fx.starting_at # <<>> THEN fx.starting_at
    ELSE IF fx.starting_at_timestamp # 0 THEN Digits(fx.starting_at_timestamp)
    ELSE <<>>

\* a < b for Python strings
RECURSIVE StrLess(_, _)
StrLess(a, b) ==
    IF b = <<>> THEN FALSE
    ELSE IF a = <<>> THEN TRUE
    ELSE IF Head(a) # Head(b) THEN Head(a) < Head(b)
    ELSE StrLess(Tail(a), Tail(b))

\* insert fx into a list sorted by descending key, after the elements whose key
\* is not smaller (list.sort is stable, also with reverse=True)
RECURSIVE InsertDesc(_, _)
InsertDesc(sorted, fx) ==
    IF sorted = <<>> THEN <<fx>>
    ELSE IF StrLess(dt_key(Head(sorted)), dt_key(fx)) THEN <<fx>> \o sorted
    ELSE <<Head(sorted)>> \o InsertDesc(Tail(sorted), fx)

RECURSIVE SortDesc(_, _)
SortDesc(sorted, rest) ==
    IF rest = <<>> THEN sorted
    ELSE SortDesc(InsertDesc(sorted, Head(rest)), Tail(rest))

HasTeam(fx, team_id) == \E i \in 1..Len(fx.participants) : fx.participants[i].id = team_id

\* team_fx[:n]
Slice(s, n) ==
    IF n >= 0 THEN SubSeq(s, 1, IF n < Len(s) THEN n ELSE Len(s))
    ELSE SubSeq(s, 1, Len(s) + n)

filter_team_recent_fixtures(fxs, team_id, n) ==
    LET InTeam(fx) == HasTeam(fx, team_id)
        team_fx == SelectSeq(fxs, InTeam)
    IN  Slice(SortDesc(<<>>, team_fx), n)

RECURSIVE SumSeq(_)
SumSeq(s) == IF s = <<>> THEN 0 ELSE Head(s) + SumSeq(Tail(s))

RECURSIVE Totals(_)
Totals(fxs) ==
    IF fxs = <<>> THEN <<>>
    ELSE extract_total_goals_from_scores(Head(fxs)) \o Totals(Tail(fxs))

avg_totals(fxs) ==
    LET totals == Totals(fxs)
    IN  IF totals = <<>> THEN <<RatZero, 0, <<>>>>
        ELSE <<Rat(SumSeq(totals), Len(totals)), Len(totals), totals>>

IsPositive(x) == RatLT(RatZero, x)

\* sum(usable) / len(usable) if usable else 0.0
Combine(h_avg, a_avg) ==
    LET usable == SelectSeq(<<h_avg, a_avg>>, IsPositive)
    IN  IF usable = <<>> THEN RatZero
        ELSE IF Len(usable) = 1 THEN RatDivInt(usable[1], 1)
        ELSE RatDivInt(RatAdd(usable[1], usable[2]), 2)

\* n_each of the call in the calculate block
NEach == 10

estimate_lambda_from_recent(fxs, home_id, away_id, n_each) ==
    LET h_fx == filter_team_recent_fixtures(fxs, home_id, n_each)
        a_fx == filter_team_recent_fixtures(fxs, away_id, n_each)
        h == avg_totals(h_fx)
        a == avg_totals(a_fx)
        l == Combine(h[1], a[1])
    IN  <<l, [home_fixtures_found |-> Len(h_fx),
              away_fixtures_found |-> Len(a_fx),
              home_totals_used |-> h[2],
              away_totals_used |-> a[2],
              home_avg_total_goals |-> h[1],
              away_avg_total_goals |-> a[1],
              lambda |-> l]>>

-----------------------------------------------------------------------------
(* The model output of the calculate block, from model_p on *)

EdgeThreshold == Rat(3, 100)

\* variant: edge >= 0.03
VerdictAtLeast(e) == IF RatLE(EdgeThreshold, e) THEN "EDGE" ELSE "NO EDGE"

\* if edge > 0.03: st.success("EDGE ...") else: st.warning("NO EDGE ...")
Verdict(e) == IF RatLT(EdgeThreshold, e) THEN "EDGE" ELSE "NO EDGE"

\* market_p, edge and the classification shown for them
Evaluate(mp, american) ==
    LET market == american_to_implied_prob(american)
        e == RatSub(mp, market)
    IN  [model_p |-> mp, market_p |-> market, edge |-> e, verdict |-> Verdict(e)]

\* variant: lam < 0
LamBelowZero(l) == RatLT(l, RatZero)

\* if lam <= 0: the evaluation stops with "Not enough finished fixtures ..."
LamInsufficient(l) == RatLE(l, RatZero)

-----------------------------------------------------------------------------
(* Data the environment supplies *)

\* team names as Sportmonks spells them, and the ids of the teams
TeamA == <<"A", " ", "b">>
TeamC == <<"c">>
TeamZ == <<"z">>
PA == Participant(1, TeamA)
PC == Participant(2, TeamC)
PZ == Participant(3, TeamZ)

\* the start instant t is 1 January of the year 2020 + t
IsoStr(t) == Digits(2020 + t)
EpochOf(t) == 1577836800 + t * 31536000

\* how a fixture carries its start: both fields, starting_at only, or
\* starting_at_timestamp only
StartForms == {"both", "at", "ts"}

Fixture(parts, t, form, scores) ==
    [participants |-> parts,
     starting_at |-> IF form = "ts" THEN <<>> ELSE IsoStr(t),
     starting_at_timestamp |-> IF form = "at" THEN 0 ELSE EpochOf(t),
     scores |-> scores]

Pairings == {<<PA, PZ>>, <<PC, PZ>>, <<PA, PC>>}

ScoreShapes ==
    { <<>>,
      <<ScoreEntry("CURRENT", <<>>)>>,
      <<ScoreEntry("CURRENT", <<0>>), ScoreEntry("CURRENT", <<0>>)>>,
      <<ScoreEntry("1ST_HALF", <<1>>), ScoreEntry("CURRENT", <<2>>),
        ScoreEntry("CURRENT", <<1>>)>>,
      <<ScoreEntry("2ND_HALF", <<2>>)>> }

\* the rows a fixtures request can return, for the calculate block
SeasonFixtures == {Fixture(pr, 0, "both", sc) : pr \in Pairings, sc \in ScoreShapes}

\* the fixtures handed to filter_team_recent_fixtures directly
DatedFixtures ==
    {Fixture(pr, t, f, <<ScoreEntry("CURRENT", <<1>>)>>) :
        pr \in {<<PA, PZ>>, <<PC, PZ>>}, t \in 0..MaxT, f \in StartForms}

ListsOf(S) == UNION {[1..k -> S] : k \in 0..MaxFixtures}

HomeInputs == {<<"a">>, <<"b", " ", "a">>, <<>>}
AwayInputs == {<<"C">>, <<"z">>, <<"b", "b">>}
OddsInputs == {-110, 0, 400}

-----------------------------------------------------------------------------
(* Direct calls of the pure helpers *)

NoCall == [fn |-> "none"]

CallOdds ==
    /\ call = NoCall
    /\ \E o \in (-MaxOdds)..MaxOdds :
          call' = [fn |-> "american_to_implied_prob", american |-> o,
                   result |-> american_to_implied_prob(o)]
    /\ UNCHANGED <<calcVars, fetchVars>>

CallPoisson ==
    /\ call = NoCall
    /\ \E k \in (-MaxLamK)..MaxLamK :
          call' = [fn |-> "prob_over_25_from_lambda", lam |-> Rat(k, LamDen),
                   result |-> prob_over_25_from_lambda(Rat(k, LamDen))]
    /\ UNCHANGED <<calcVars, fetchVars>>

CallEvaluate ==
    /\ call = NoCall
    /\ \E k \in 0..ProbGrid, o \in (-MaxOdds)..MaxOdds :
          call' = [fn |-> "evaluate", american |-> o,
                   result |-> Evaluate(Rat(k, ProbGrid), o)]
    /\ UNCHANGED <<calcVars, fetchVars>>

CallFilter ==
    /\ call = NoCall
    /\ \E fxs \in ListsOf(DatedFixtures), team \in {1, 2}, n \in 0..MaxN :
          call' = [fn |-> "filter_team_recent_fixtures", fixtures |-> fxs,
                   team_id |-> team, n |-> n,
                   result |-> filter_team_recent_fixtures(fxs, team, n)]
    /\ UNCHANGED <<calcVars, fetchVars>>

-----------------------------------------------------------------------------
(* The calculate block *)

\* "Keep only finished with scores present"
HasScores(fx) == fx.scores # <<>>
Finished(fxs) == SelectSeq(fxs, HasScores)

CalcIdle ==
    /\ fixtures = None /\ name_to_id = None
    /\ home_match = None /\ away_match = None
    /\ lam = None /\ dbg = None
    /\ model_p = None /\ market_p = None /\ edge = None
    /\ ui = <<>>

CalcFetch ==
    /\ pc = "calc"
    /\ \/ /\ ui' = Append(ui, "error:Could not fetch fixtures")
          /\ pc' = "stopped_fetch"
          /\ UNCHANGED fixtures
       \/ \E raw \in ListsOf(SeasonFixtures) :
             /\ fixtures' = Finished(raw)
             /\ IF fixtures' = <<>>
                THEN /\ ui' = Append(ui, "error:No finished fixtures")
                     /\ pc' = "stopped_empty"
                ELSE /\ ui' = ui
                     /\ pc' = "fetched"
    /\ UNCHANGED <<call, home_team, away_team, american_odds, name_to_id,
                   home_match, away_match, lam, dbg, model_p, market_p, edge,
                   fetchVars>>

CalcResolve ==
    /\ pc = "fetched"
    /\ name_to_id' = find_team_ids_from_fixtures(fixtures)
    /\ home_match' = best_fuzzy_match(home_team, Keys(name_to_id'))
    /\ away_match' = best_fuzzy_match(away_team, Keys(name_to_id'))
    /\ IF home_match' = <<>>
       THEN /\ ui' = ui \o <<"error:Home team not found", "info:Tip">>
            /\ pc' = "stopped_home"
       ELSE IF away_match' = <<>>
       THEN /\ ui' = ui \o <<"error:Away team not found", "info:Tip">>
            /\ pc' = "stopped_away"
       ELSE /\ ui' = ui \o <<"caption:Matched Home", "caption:Matched Away">>
            /\ pc' = "resolved"
    /\ UNCHANGED <<call, home_team, away_team, american_odds, fixtures,
                   lam, dbg, model_p, market_p, edge, fetchVars>>

CalcEstimate ==
    /\ pc = "resolved"
    /\ LET home_id == Lookup(name_to_id, home_match)
           away_id == Lookup(name_to_id, away_match)
           est == estimate_lambda_from_recent(fixtures, home_id, away_id, NEach)
       IN  /\ lam' = est[1]
           /\ dbg' = est[2]
    /\ IF LamInsufficient(lam')
       THEN /\ ui' = ui \o <<"error:Not enough finished fixtures", "json:dbg">>
            /\ pc' = "stopped_lambda"
       ELSE /\ ui' = ui
            /\ pc' = "estimated"
    /\ UNCHANGED <<call, home_team, away_team, american_odds, fixtures,
                   name_to_id, home_match, away_match, model_p, market_p, edge,
                   fetchVars>>

CalcOutput ==
    /\ pc = "estimated"
    /\ LET r == Evaluate(prob_over_25_from_lambda(lam), american_odds)
       IN  /\ model_p' = r.model_p
           /\ market_p' = r.market_p
           /\ edge' = r.edge
           /\ ui' = ui \o <<"subheader:Model Output", "write:lambda",
                            "write:model_p", "write:market_p", "write:edge",
                            IF r.verdict = "EDGE" THEN "success:EDGE"
                                                  ELSE "warning:NO EDGE",
                            "expander:Debug details">>
    /\ pc' = "done"
    /\ UNCHANGED <<call, home_team, away_team, american_odds, fixtures,
                   name_to_id, home_match, away_match, lam, dbg, fetchVars>>

-----------------------------------------------------------------------------
(* The paginated fetch loops *)

PageSize == 25
LeagueCap == 30
SeasonCap == 50
FixtureCap == 50

Loops == <<"fetch_leagues", "fetch_seasons_for_league", "fetch_fixtures_for_season">>

PageCap(fn) ==
    IF fn = "fetch_leagues" THEN LeagueCap
    ELSE IF fn = "fetch_seasons_for_league" THEN SeasonCap
    ELSE FixtureCap

\* a server response: an HTTP error, or a page of rows with pagination.has_more
\* True, False or missing
Responses ==
    {[kind |-> "error", rows |-> 0, has_more |-> "missing"]} \cup
    {[kind |-> "ok", rows |-> n, has_more |-> h] :
        n \in {0, 1, PageSize - 1, PageSize, PageSize + 1},
        h \in {"true", "false", "missing"}}

\* variant: one page more than the cap
PastCapOffByOne(fn, p) == p > PageCap(fn) + 1

\* page += 1; if page > cap: break
PastCap(fn, p) == p > PageCap(fn)

\* the breaks inside one iteration, before page += 1
StopsOn(r) == r.rows = 0 \/ r.has_more = "false" \/ r.rows < PageSize

\* before the first response
NoResponse == [kind |-> "none", rows |-> 0, has_more |-> "missing"]

FetchIdle == loop = [fn |-> "none", state |-> "idle"] /\ page = 0
             /\ requested = <<>> /\ resp = NoResponse

\* one pass through the body of "while True" of the loop fn
Iteration(fn) ==
    /\ loop = [fn |-> fn, state |-> "running"]
    /\ \E r \in Responses :
          /\ requested' = Append(requested, page)
          /\ resp' = r
          /\ IF r.kind = "error"
             THEN /\ loop' = [fn |-> fn, state |-> "raised"]
                  /\ page' = page
             ELSE IF StopsOn(r)
             THEN /\ loop' = [fn |-> fn, state |-> "returned"]
                  /\ page' = page
             ELSE /\ page' = page + 1
                  /\ loop' = [fn |-> fn,
                              state |-> IF PastCap(fn, page') THEN "returned"
                                                              ELSE "running"]
    /\ UNCHANGED <<call, calcVars>>

LeaguesIteration == Iteration("fetch_leagues")
SeasonsIteration == Iteration("fetch_seasons_for_league")
FixturesIteration == Iteration("fetch_fixtures_for_season")

\* the script goes on to the next fetch when one has returned
StartNextFetch ==
    /\ loop.state = "returned"
    /\ \E i \in 1..2 :
          /\ loop.fn = Loops[i]
          /\ loop' = [fn |-> Loops[i + 1], state |-> "running"]
    /\ page' = 1
    /\ requested' = <<>>
    /\ resp' = NoResponse
    /\ UNCHANGED <<call, calcVars>>

-----------------------------------------------------------------------------
(* Specifications *)

\* the calculate block, for every input of the form
Init ==
    /\ call = NoCall
    /\ pc = "calc"
    /\ home_team \in HomeInputs
    /\ away_team \in AwayInputs
    /\ american_odds \in OddsInputs
    /\ CalcIdle
    /\ FetchIdle

Next == CalcFetch \/ CalcResolve \/ CalcEstimate \/ CalcOutput

Spec == Init /\ [][Next]_vars

\* the pure helpers, called directly
InitPure ==
    /\ call = NoCall
    /\ pc = "idle"
    /\ home_team = <<>> /\ away_team = <<>> /\ american_odds = 0
    /\ CalcIdle
    /\ FetchIdle

NextPure == CallOdds \/ CallPoisson \/ CallEvaluate \/ CallFilter

SpecPure == InitPure /\ [][NextPure]_vars

\* the three paginated fetches, one after the other
InitFetch ==
    /\ call = NoCall
    /\ pc = "idle"
    /\ home_team = <<>> /\ away_team = <<>> /\ american_odds = 0
    /\ CalcIdle
    /\ loop = [fn |-> "fetch_leagues", state |-> "running"]
    /\ page = 1
    /\ requested = <<>>
    /\ resp = NoResponse

NextFetch == LeaguesIteration \/ SeasonsIteration \/ FixturesIteration \/ StartNextFetch

SpecFetch == InitFetch /\ [][NextFetch]_vars /\ WF_vars(NextFetch)

-----------------------------------------------------------------------------
(* Properties *)

Shown == {ui[i] : i \in 1..Len(ui)}

OutputElements ==
    {"subheader:Model Output", "write:lambda", "write:model_p", "write:market_p",
     "write:edge", "success:EDGE", "warning:NO EDGE", "expander:Debug details"}

ErrorElements ==
    {"error:Could not fetch fixtures", "error:No finished fixtures",
     "error:Home team not found", "error:Away team not found",
     "error:Not enough finished fixtures"}

Stopped == {"stopped_fetch", "stopped_empty", "stopped_home", "stopped_away",
            "stopped_lambda"}

\* estimate_lambda_from_recent has returned
Estimated == pc \in {"estimated", "done", "stopped_lambda"}

\* C1: for every non-zero american odds o, american_to_implied_prob(o) is
\* |o| / (|o| + 100) when o < 0 and 100 / (o + 100) when o > 0, and lies
\* strictly between 0 and 1.
C1_ImpliedProbFormula ==
    (call.fn = "american_to_implied_prob" /\ call.american # 0) =>
        LET o == call.american
            r == call.result
        IN  /\ r.den > 0
            /\ o < 0 => r.num * (Abs(o) + 100) = Abs(o) * r.den
            /\ o > 0 => r.num * (o + 100) = 100 * r.den
            /\ 0 < r.num /\ r.num < r.den

C1_Witness ==
    /\ call.fn = "american_to_implied_prob"
    /\ call.american = -110
    /\ RatEq(call.result, Rat(11, 21))

\* C2: when the american odds are 0, the conversion fails with InvalidInput:
\* it returns no numeric probability, and no edge or recommendation is
\* produced from zero odds.
C2_ZeroOddsRejected ==
    american_odds = 0 => pc # "done" /\ Shown \cap OutputElements = {}

\* C3: if either team has fewer usable matches than the minimum sample (here
\* the least one, a single match), the evaluation ends without lambda, model
\* probability or edge.
C3_InsufficientDataStops ==
    pc \in {"estimated", "done"} =>
        dbg.home_totals_used >= 1 /\ dbg.away_totals_used >= 1

\* C4: whenever both teams have usable matches, the estimator returns a
\* lambda above 0, also when every usable match had zero total goals.
C4_LambdaPositive ==
    (Estimated /\ dbg.home_totals_used >= 1 /\ dbg.away_totals_used >= 1) =>
        RatLT(RatZero, lam)

\* C5: for two teams with at least one usable match each, lambda is the mean
\* of the home team's and the away team's average total goals.
C5_LambdaIsMean ==
    (Estimated /\ dbg.home_totals_used >= 1 /\ dbg.away_totals_used >= 1) =>
        RatEq(lam, RatDivInt(RatAdd(dbg.home_avg_total_goals,
                                    dbg.away_avg_total_goals), 2))

\* C6: prob_over_25_from_lambda returns exactly 0 for every lambda <= 0, and
\* for lambda > 0 returns 1 - (P(0) + P(1) + P(2)) clamped into [0, 1]; the
\* result always lies in [0, 1].
C6_PoissonTail ==
    call.fn = "prob_over_25_from_lambda" =>
        LET l == call.lam
            r == call.result
            tail == SCALE - (poisson_pmf(0, l) + poisson_pmf(1, l) + poisson_pmf(2, l))
        IN  /\ r.den = SCALE
            /\ 0 <= r.num /\ r.num <= r.den
            /\ l.num <= 0 => r.num = 0
            /\ l.num > 0 =>
                  r.num = (IF tail < 0 THEN 0 ELSE IF tail > SCALE THEN SCALE ELSE tail)

C6_Witness ==
    /\ call.fn = "prob_over_25_from_lambda"
    /\ RatEq(call.lam, Rat(11, 4))
    /\ RatLT(Rat(51, 100), call.result)
    /\ RatLT(call.result, Rat(52, 100))

\* C7: the edge is model probability minus market probability, and the
\* classification is EDGE exactly when the edge is strictly greater than
\* 0.03; an edge equal to 0.03 is classified NO EDGE.
C7_EdgeClassification ==
    call.fn = "evaluate" =>
        LET r == call.result
        IN  /\ RatEq(r.market_p, american_to_implied_prob(call.american))
            /\ r.edge.den > 0
            /\ r.edge.num * r.model_p.den * r.market_p.den =
                  r.edge.den * (r.model_p.num * r.market_p.den
                                - r.market_p.num * r.model_p.den)
            /\ r.verdict \in {"EDGE", "NO EDGE"}
            /\ r.verdict = "EDGE" <=> 100 * r.edge.num > 3 * r.edge.den

C7_Witness ==
    /\ call.fn = "evaluate"
    /\ RatEq(call.result.edge, Rat(3, 100))
    /\ call.result.verdict = "NO EDGE"

\* C8: the model output is produced only after the fixture fetch returned a
\* non-empty list, the home name resolved, the away name resolved and
\* lambda > 0, in that order; a failure of any of them ends the evaluation
\* with one error, no later step and no part of the output.
C8_OutputOnlyAfterChecks ==
    /\ (pc = "done" \/ Shown \cap OutputElements # {}) =>
          /\ pc = "done"
          /\ fixtures # <<>>
          /\ home_match # <<>>
          /\ away_match # <<>>
          /\ RatLT(RatZero, lam)
          /\ Shown \cap ErrorElements = {}
          /\ SubSeq(ui, 1, 3) = <<"caption:Matched Home", "caption:Matched Away",
                                  "subheader:Model Output">>
    /\ (pc \in Stopped \/ Shown \cap ErrorElements # {}) =>
          /\ pc \in Stopped
          /\ Cardinality(Shown \cap ErrorElements) = 1
          /\ Shown \cap OutputElements = {}
          /\ ~ENABLED Next
    /\ pc = "stopped_fetch" => ui = <<"error:Could not fetch fixtures">>
    /\ pc = "stopped_empty" => fixtures = <<>> /\ ui = <<"error:No finished fixtures">>
    /\ pc = "stopped_home" => home_match = <<>> /\ ui[1] = "error:Home team not found"
    /\ pc = "stopped_away" =>
          home_match # <<>> /\ away_match = <<>> /\ ui[1] = "error:Away team not found"
    /\ pc = "stopped_lambda" =>
          /\ home_match # <<>> /\ away_match # <<>>
          /\ RatLE(lam, RatZero)
          /\ ui = <<"caption:Matched Home", "caption:Matched Away",
                    "error:Not enough finished fixtures", "json:dbg">>

C8_Witness ==
    /\ pc = "done"
    /\ "write:edge" \in Shown
    /\ RatLT(RatZero, lam)

\* the instant a fixture starts
StartInstant(fx) ==
    CHOOSE t \in 0..MaxT : fx.starting_at = IsoStr(t) \/ fx.starting_at_timestamp = EpochOf(t)

Count(f, s) == Cardinality({i \in 1..Len(s) : s[i] = f})

\* C9: filter_team_recent_fixtures returns at most n fixtures, each with
\* team_id among its participants, ordered most recent first by start time,
\* and no fixture of the team that is left out started later than one that is
\* in the result.
C9_MostRecentFirst ==
    call.fn = "filter_team_recent_fixtures" =>
        LET r == call.result
            fxs == call.fixtures
        IN  /\ Len(r) <= call.n
            /\ \A i \in 1..Len(r) : HasTeam(r[i], call.team_id)
            /\ \A i, j \in 1..Len(r) :
                  i < j => StartInstant(r[i]) >= StartInstant(r[j])
            /\ \A k \in 1..Len(fxs) :
                  (HasTeam(fxs[k], call.team_id) /\ Count(fxs[k], r) < Count(fxs[k], fxs)) =>
                      \A i \in 1..Len(r) : StartInstant(fxs[k]) <= StartInstant(r[i])

C10_Safe ==
    loop.fn # "none" =>
        /\ \A i \in 1..Len(requested) : requested[i] = i
        /\ Len(requested) <= PageCap(loop.fn)
        /\ loop.fn = "fetch_leagues" => Len(requested) <= 30
        /\ loop.fn # "fetch_leagues" => Len(requested) <= 50
        /\ loop.state = "running" =>
              /\ page = Len(requested) + 1
              /\ requested # <<>> =>
                    /\ resp.kind = "ok"
                    /\ resp.rows >= 25
                    /\ resp.has_more # "false"
        /\ loop.state = "returned" =>
              \/ resp.rows = 0
              \/ resp.has_more = "false"
              \/ resp.rows < 25
              \/ Len(requested) = PageCap(loop.fn)

C10_Finished ==
    \/ loop.state = "raised"
    \/ loop = [fn |-> "fetch_fixtures_for_season", state |-> "returned"]

\* C10: each paginated fetch loop terminates for every sequence of responses:
\* it stops at the first page that is empty, has has_more = false or holds
\* fewer than 25 rows, and otherwise at the cap, so fetch_leagues requests at
\* most 30 pages and the two others at most 50, the pages being 1, 2, 3, ...
\* in order.
C10_FetchLoopsTerminate == []C10_Safe /\ <>C10_Finished

C10_Witness ==
    /\ loop = [fn |-> "fetch_leagues", state |-> "returned"]
    /\ Len(requested) = LeagueCap
    /\ resp.rows >= PageSize

=============================================================================
